---- MODULE Spec2Model ----
(***************************************************************************)
(* Letter Boxed solver (src/src/index.ts): letter graph of the box, the    *)
(* trie-guided word finder, the dominance filter, the word graph and the   *)
(* depth-first search for chains of words covering every letter node.      *)
(*                                                                         *)
(* Strings are modelled as sequences of one-character strings, so that     *)
(* the keys the program builds by formatting and joining are computed, not *)
(* assumed to be injective.                                                *)
(***************************************************************************)
EXTENDS Integers, Sequences, FiniteSets, TLC

VARIABLES pc, sides, dict, graph, words, filteredWords, refilteredWords,
          wordGraph, minNumNodes, path, stack, seenPaths, solutions

vars == <<pc, sides, dict, graph, words, filteredWords, refilteredWords,
          wordGraph, minNumNodes, path, stack, seenPaths, solutions>>

-----------------------------------------------------------------------------
(* Bounds of the model.                                                    *)

\* letters a box side or a dictionary word is made of (pipeline runs)
Letters == {"a", "b"}
\* length of a dictionary word
MaxWordLen == 3
\* words in a dictionary
MaxDictSize == 2
\* words handed to the filter or to the word graph builder on their own
MaxWords == 3
\* letter nodes of such a word
MaxWalkLen == 4

-----------------------------------------------------------------------------
(* Generic helpers.                                                        *)

Range(s) == {s[i] : i \in DOMAIN s}

SeqsUpTo(S, n) == UNION {[1..k -> S] : k \in 0..n}

RECURSIVE SubsetsUpTo(_, _)
SubsetsUpTo(S, n) ==
    IF n = 0 THEN {{}}
    ELSE LET P == SubsetsUpTo(S, n - 1)
         IN  P \cup {p \cup {x} : p \in P, x \in S}

Contains(s, x) == \E i \in DOMAIN s : s[i] = x

\* s with x appended unless it is already there (insertion-ordered set/map keys)
AddOnce(s, x) == IF Contains(s, x) THEN s ELSE Append(s, x)

RECURSIVE Flatten(_)
Flatten(ss) == IF ss = <<>> THEN <<>> ELSE Head(ss) \o Flatten(Tail(ss))

\* Array.prototype.join: the elements (strings) with sep between them
RECURSIVE Join(_, _)
Join(ss, sep) ==
    IF ss = <<>> THEN <<>>
    ELSE IF Len(ss) = 1 THEN Head(ss)
    ELSE Head(ss) \o sep \o Join(Tail(ss), sep)

\* characters in the order of their code units
Chars == <<"-", "0", "1", "2", "3", "4", "5", "6", "7", "8", "9", ":", ">",
           "a", "b", "c", "d", "e">>

Code(c) == CHOOSE i \in DOMAIN Chars : Chars[i] = c

\* s < t as JavaScript compares strings
RECURSIVE StrLess(_, _)
StrLess(s, t) ==
    IF t = <<>> THEN FALSE
    ELSE IF s = <<>> THEN TRUE
    ELSE IF Head(s) = Head(t) THEN StrLess(Tail(s), Tail(t))
    ELSE Code(Head(s)) < Code(Head(t))

\* a number formatted in decimal by a template literal
RECURSIVE Digits(_)
Digits(n) == IF n < 10 THEN <<Chars[n + 2]>>
             ELSE Digits(n \div 10) \o <<Chars[(n % 10) + 2]>>

-----------------------------------------------------------------------------
(* graphlib Graph: nodes in insertion order, a label per node, edges in    *)
(* insertion order.                                                        *)

NewGraph(isDirected) ==
    [directed |-> isDirected, nodes |-> <<>>, label |-> <<>>, edges |-> <<>>]

HasNode(g, v) == Contains(g.nodes, v)

\* graph.node(v)
NodeLabel(g, v) == (CHOOSE p \in Range(g.label) : p[1] = v)[2]

\* graph.setNode(v, value)
SetNode(g, v, value) ==
    [g EXCEPT !.nodes = AddOnce(@, v),
              !.label = IF HasNode(g, v)
                        THEN [i \in DOMAIN @ |-> IF @[i][1] = v THEN <<v, value>> ELSE @[i]]
                        ELSE Append(@, <<v, value>>)]

\* graph.setEdge(v, w): an undirected graph stores the edge with v <= w
SetEdge(g, v, w) ==
    LET e == IF ~g.directed /\ StrLess(w, v) THEN <<w, v>> ELSE <<v, w>>
    IN  [g EXCEPT !.edges = AddOnce(@, e)]

\* graph.successors(v), graph.predecessors(v)
Successors(g, v) ==
    LET es == SelectSeq(g.edges, LAMBDA e : e[1] = v)
    IN  [i \in DOMAIN es |-> es[i][2]]

Predecessors(g, v) ==
    LET es == SelectSeq(g.edges, LAMBDA e : e[2] = v)
    IN  [i \in DOMAIN es |-> es[i][1]]

RECURSIVE Union(_, _)
Union(s, t) == IF t = <<>> THEN s ELSE Union(AddOnce(s, Head(t)), Tail(t))

\* graph.neighbors(v): predecessors, then the successors not among them
Neighbors(g, v) == Union(Union(<<>>, Predecessors(g, v)), Successors(g, v))

NodeCount(g) == Len(g.nodes)

-----------------------------------------------------------------------------
(* createLetterBoxGraph                                                    *)

LetterKey(i, letterI, letter) == Digits(i) \o Digits(letterI) \o <<":", letter>>

\* the iterations <<i, j, letterI, letterJ>> of the four nested loops
LoopIterations(s) ==
    UNION {{<<i, j, letterI, letterJ>> :
                letterI \in 0..(Len(s[i + 1]) - 1), letterJ \in 0..(Len(s[j + 1]) - 1)} :
           <<i, j>> \in {p \in (0..(Len(s) - 1)) \X (0..(Len(s) - 1)) : p[1] < p[2]}}

LexLess(p, q) ==
    \E k \in 1..4 : p[k] < q[k] /\ \A m \in 1..(k - 1) : p[m] = q[m]

RECURSIVE InLoopOrder(_)
InLoopOrder(Q) ==
    IF Q = {} THEN <<>>
    ELSE LET q == CHOOSE x \in Q : \A y \in Q \ {x} : LexLess(x, y)
         IN  <<q>> \o InLoopOrder(Q \ {q})

RECURSIVE BuildLetterGraph(_, _, _)
BuildLetterGraph(g, s, its) ==
    IF its = <<>> THEN g
    ELSE LET q == Head(its)
             letter1 == s[q[1] + 1][q[3] + 1]
             letter2 == s[q[2] + 1][q[4] + 1]
             letter1Key == LetterKey(q[1], q[3], letter1)
             letter2Key == LetterKey(q[2], q[4], letter2)
             g1 == SetNode(g, letter1Key, letter1)
             g2 == SetNode(g1, letter2Key, letter2)
             g3 == SetEdge(g2, letter1Key, letter2Key)
         IN  BuildLetterGraph(g3, s, Tail(its))

createLetterBoxGraph(s) ==
    BuildLetterGraph(NewGraph(FALSE), s, InLoopOrder(LoopIterations(s)))

-----------------------------------------------------------------------------
(* createTrie, isWord, isPrefix.  The trie holds the dictionary; search(s) *)
(* returns the entries that start with s, an entry equal to s first.       *)

createTrie(ws) == ws

IsPrefixOf(s, w) == Len(s) <= Len(w) /\ SubSeq(w, 1, Len(s)) = s

RECURSIVE InStringOrder(_)
InStringOrder(S) ==
    IF S = {} THEN <<>>
    ELSE LET w == CHOOSE x \in S : \A y \in S \ {x} : StrLess(x, y)
         IN  <<w>> \o InStringOrder(S \ {w})

\* trie.search(s)
TrieSearch(trie, s) ==
    (IF s \in trie THEN <<[word |-> s]>> ELSE <<>>)
    \o LET rest == InStringOrder({w \in trie : IsPrefixOf(s, w) /\ w # s})
       IN  [i \in DOMAIN rest |-> [word |-> rest[i]]]

isWord(s, trie) ==
    IF Len(s) < 3 THEN FALSE
    ELSE LET found == TrieSearch(trie, s)
         IN  Len(found) > 0 /\ found[1].word = s

\* isPrefix gone wrong: only a complete entry counts as a prefix
isPrefixOfItselfOnly(prefix, trie) ==
    LET found == TrieSearch(trie, prefix)
    IN  Len(found) > 0 /\ found[1].word = prefix

isPrefix(prefix, trie) == Len(TrieSearch(trie, prefix)) > 0

-----------------------------------------------------------------------------
(* findWords / visitNode.  acc carries the two collections the recursion   *)
(* mutates: seenPaths and words (a Set of fresh objects, in insertion      *)
(* order).                                                                 *)

RECURSIVE visitNode(_, _, _, _, _)
RECURSIVE visitNeighbors(_, _, _, _, _)

visitNode(nodeKey, pathIn, acc, g, trie) ==
    LET path1 == Append(pathIn, nodeKey)
        pathKey == Join(path1, <<" ">>)
        prefix == [i \in DOMAIN path1 |-> NodeLabel(g, path1[i])]
    IN  IF pathKey \in acc.seenPaths THEN acc
        ELSE LET acc1 == [seenPaths |-> acc.seenPaths \cup {pathKey},
                          words |-> IF isWord(prefix, trie)
                                    THEN Append(acc.words, [word |-> prefix, nodeKeys |-> path1])
                                    ELSE acc.words]
             IN  IF isPrefix(prefix, trie)
                 THEN visitNeighbors(Neighbors(g, nodeKey), path1, acc1, g, trie)
                 ELSE acc1

visitNeighbors(ns, path1, acc, g, trie) ==
    IF ns = <<>> THEN acc
    ELSE visitNeighbors(Tail(ns), path1, visitNode(Head(ns), path1, acc, g, trie), g, trie)

RECURSIVE findWordsFrom(_, _, _, _)
findWordsFrom(ns, ws, g, trie) ==
    IF ns = <<>> THEN ws
    ELSE findWordsFrom(Tail(ns),
                       visitNode(Head(ns), <<>>, [seenPaths |-> {}, words |-> ws], g, trie).words,
                       g, trie)

findWords(trie, g) == findWordsFrom(g.nodes, <<>>, g, trie)

-----------------------------------------------------------------------------
(* filterWordsInLetterBox                                                  *)

KeySet(word) == Range(word.nodeKeys)

\* addWord gone wrong: the inner loop breaks after its first round
addWordNextOnly(wordsArray, i) ==
    ~\E j \in {i + 1} \cap (1..Len(wordsArray)) :
        {x \in KeySet(wordsArray[i]) : x \notin KeySet(wordsArray[j])} = {}

\* addWord gone wrong: the inner loop starts at 0 and skips only word1 itself
addWordAnyOther(wordsArray, i) ==
    ~\E j \in (1..Len(wordsArray)) \ {i} :
        {x \in KeySet(wordsArray[i]) : x \notin KeySet(wordsArray[j])} = {}

\* the inner loop found no later word2 whose key set holds all of word1's
addWord(wordsArray, i) ==
    ~\E j \in (i + 1)..Len(wordsArray) :
        {x \in KeySet(wordsArray[i]) : x \notin KeySet(wordsArray[j])} = {}

RECURSIVE FilterFrom(_, _)
FilterFrom(wordsArray, i) ==
    IF i > Len(wordsArray) THEN <<>>
    ELSE (IF addWord(wordsArray, i) THEN <<wordsArray[i]>> ELSE <<>>)
         \o FilterFrom(wordsArray, i + 1)

filterWordsInLetterBox(ws) == FilterFrom(ws, 1)


-----------------------------------------------------------------------------
(* createWordGraph                                                         *)

WordKey(word) == Join(word.nodeKeys, <<"-", ">">>)

startCharKey(word) == word.nodeKeys[1]

endCharKey(word) == word.nodeKeys[Len(word.nodeKeys)]

\* the keys of startMap and of endMap, in insertion order
startMapKeys(ws) == Union(<<>>, [i \in DOMAIN ws |-> startCharKey(ws[i])])

endMapKeys(ws) == Union(<<>>, [i \in DOMAIN ws |-> endCharKey(ws[i])])

\* startMap.get(key), endMap.get(key)
startMapGet(ws, key) == SelectSeq(ws, LAMBDA w : startCharKey(w) = key)

endMapGet(ws, key) == SelectSeq(ws, LAMBDA w : endCharKey(w) = key)

allKeys(ws) == Union(startMapKeys(ws), endMapKeys(ws))

\* the iterations <<startWord, endWord>> of the three nested loops
WordPairs(ws) ==
    Flatten([k \in DOMAIN allKeys(ws) |->
        LET starts == startMapGet(ws, allKeys(ws)[k])
            ends == endMapGet(ws, allKeys(ws)[k])
        IN  Flatten([i \in DOMAIN starts |->
                [j \in DOMAIN ends |-> <<starts[i], ends[j]>>]])])

RECURSIVE BuildWordGraph(_, _)
BuildWordGraph(g, pairs) ==
    IF pairs = <<>> THEN g
    ELSE LET startWord == Head(pairs)[1]
             endWord == Head(pairs)[2]
             startWordKey == WordKey(startWord)
             endWordKey == WordKey(endWord)
             g1 == SetNode(g, startWordKey, startWord)
             g2 == SetNode(g1, endWordKey, endWord)
             g3 == IF startWordKey # endWordKey
                   THEN SetEdge(g2, endWordKey, startWordKey)
                   ELSE g2
         IN  BuildWordGraph(g3, Tail(pairs))

createWordGraph(ws) == BuildWordGraph(NewGraph(TRUE), WordPairs(ws))

-----------------------------------------------------------------------------
(* findSolutions / exploreWordGraph / hasNewNode                           *)

\* the chain length above which exploreWordGraph throws
MaxChain == 25

\* the distinct letter nodes of a list of words
SeenNodes(ws) == UNION {KeySet(ws[i]) : i \in DOMAIN ws}

\* hasNewNode gone wrong: >= for >
hasNewNodeOrSame(word, seenWords) ==
    LET seenNodes == SeenNodes(seenWords)
        seenNodesLength == Cardinality(seenNodes)
    IN  Cardinality(seenNodes \cup KeySet(word)) >= seenNodesLength

hasNewNode(word, seenWords) ==
    LET seenNodes == SeenNodes(seenWords)
        seenNodesLength == Cardinality(seenNodes)
    IN  Cardinality(seenNodes \cup KeySet(word)) > seenNodesLength

\* isCovering gone wrong: one letter node short
isCoveringButOne(seenLetterNodes, n) == Cardinality(seenLetterNodes) >= n - 1

\* the test that makes a chain a solution
isCovering(seenLetterNodes, n) == Cardinality(seenLetterNodes) >= n

\* path.map(key => graph.node(key))
PathWords(g, p) == [i \in DOMAIN p |-> NodeLabel(g, p[i])]

\* solutions.sort by the length of the word list (the sort is stable)
SortByLength(sols) ==
    Flatten([n \in 1..(MaxChain + 1) |->
                SelectSeq(sols, LAMBDA s : Len(s.letterBoxWordList) = n)])

ButLast(s) == SubSeq(s, 1, Len(s) - 1)

-----------------------------------------------------------------------------
(* The run of main.  pc is the position in main; during findSolutions,     *)
(* stack holds for every active loop (the loop of findSolutions, then one  *)
(* loop over successors per exploreWordGraph frame) the keys still to      *)
(* visit, and path is the path array the frames share.                     *)

\* the layouts main is run on: two and three sides, a letter on two sides,
\* two letters on a side, an empty side, a single side, no side
Layouts ==
    { <<<<"a">>, <<"b">>>>,
      <<<<"a">>, <<"a">>>>,
      <<<<"a", "b">>, <<"a">>>>,
      <<<<"a", "a">>, <<"b">>>>,
      <<<<"a">>, <<"b">>, <<"a">>>>,
      <<<<"a", "b">>, <<"b", "a">>>>,
      <<<<"a">>, <<>>, <<"b">>>>,
      <<<<"a", "b">>>>,
      <<>> }

WordPool == SeqsUpTo(Letters, MaxWordLen) \ {<<>>}

Dictionaries == SubsetsUpTo(WordPool, MaxDictSize)

Idle ==
    /\ graph = NewGraph(FALSE)
    /\ words = <<>>
    /\ filteredWords = <<>>
    /\ refilteredWords = <<>>
    /\ wordGraph = NewGraph(TRUE)
    /\ minNumNodes = 0
    /\ path = <<>>
    /\ stack = <<>>
    /\ seenPaths = {}
    /\ solutions = <<>>

Init ==
    /\ pc = "start"
    /\ sides \in Layouts
    /\ dict \in Dictionaries
    /\ Idle

MainCreateLetterBoxGraph ==
    /\ pc = "start"
    /\ graph' = createLetterBoxGraph(sides)
    /\ pc' = "boxed"
    /\ UNCHANGED <<sides, dict, words, filteredWords, refilteredWords, wordGraph, minNumNodes,
                   path, stack, seenPaths, solutions>>

MainFindWords ==
    /\ pc = "boxed"
    /\ words' = findWords(createTrie(dict), graph)
    /\ pc' = "found"
    /\ UNCHANGED <<sides, dict, graph, filteredWords, refilteredWords, wordGraph, minNumNodes,
                   path, stack, seenPaths, solutions>>

MainFilterWords ==
    /\ pc = "found"
    /\ filteredWords' = filterWordsInLetterBox(words)
    /\ pc' = "filtered"
    /\ UNCHANGED <<sides, dict, graph, words, refilteredWords, wordGraph, minNumNodes,
                   path, stack, seenPaths, solutions>>

MainCreateWordGraph ==
    /\ pc = "filtered"
    /\ wordGraph' = createWordGraph(filteredWords)
    /\ pc' = "graphed"
    /\ UNCHANGED <<sides, dict, graph, words, filteredWords, refilteredWords, minNumNodes,
                   path, stack, seenPaths, solutions>>

\* main calls findSolutions(wordGraph, graph.nodeCount())
FindSolutionsCall ==
    /\ pc = "graphed"
    /\ minNumNodes' = NodeCount(graph)
    /\ solutions' = <<>>
    /\ path' = <<>>
    /\ stack' = <<wordGraph.nodes>>
    /\ seenPaths' = {}
    /\ pc' = "search"
    /\ UNCHANGED <<sides, dict, graph, words, filteredWords, refilteredWords, wordGraph>>

\* the innermost loop calls exploreWordGraph on its next key; the step runs
\* the call up to its return or to the start of its own loop over successors
ExploreWordGraph ==
    /\ pc = "search"
    /\ stack # <<>>
    /\ stack[Len(stack)] # <<>>
    /\ LET top == Len(stack)
           nodeKey == Head(stack[top])
           rest == [stack EXCEPT ![top] = Tail(@)]
           seen == IF top = 1 THEN {} ELSE seenPaths
           path1 == Append(path, nodeKey)
           pathKey == Join(path1, <<>>)
           ws == PathWords(wordGraph, path1)
           seenLetterNodes == SeenNodes(ws)
       IN  IF Len(path) > MaxChain
           THEN /\ pc' = "thrown"
                /\ UNCHANGED <<path, stack, seenPaths, solutions>>
           ELSE /\ pc' = pc
                /\ IF ~hasNewNode(NodeLabel(wordGraph, nodeKey), PathWords(wordGraph, path))
                   THEN /\ stack' = rest
                        /\ seenPaths' = seen
                        /\ UNCHANGED <<path, solutions>>
                   ELSE IF pathKey \in seen
                   THEN /\ stack' = rest
                        /\ seenPaths' = seen
                        /\ UNCHANGED <<path, solutions>>
                   ELSE IF isCovering(seenLetterNodes, minNumNodes)
                   THEN /\ solutions' = Append(solutions,
                               [numSeenLetterNodes |-> Cardinality(seenLetterNodes),
                                letterBoxWordList |-> ws])
                        /\ stack' = rest
                        /\ seenPaths' = seen \cup {pathKey}
                        /\ UNCHANGED path
                   ELSE /\ path' = path1
                        /\ stack' = Append(rest, Successors(wordGraph, nodeKey))
                        /\ seenPaths' = seen \cup {pathKey}
                        /\ UNCHANGED solutions
    /\ UNCHANGED <<sides, dict, graph, words, filteredWords, refilteredWords, wordGraph,
                   minNumNodes>>

\* the loop over successors is over: path.pop() and return to the caller
ExploreReturn ==
    /\ pc = "search"
    /\ Len(stack) > 1
    /\ stack[Len(stack)] = <<>>
    /\ stack' = ButLast(stack)
    /\ path' = ButLast(path)
    /\ UNCHANGED <<pc, sides, dict, graph, words, filteredWords, refilteredWords,
                   wordGraph, minNumNodes, seenPaths, solutions>>

\* the loop of findSolutions is over: main sorts what it returned
FindSolutionsReturn ==
    /\ pc = "search"
    /\ Len(stack) = 1
    /\ stack[1] = <<>>
    /\ solutions' = SortByLength(solutions)
    /\ stack' = <<>>
    /\ pc' = "done"
    /\ UNCHANGED <<sides, dict, graph, words, filteredWords, refilteredWords,
                   wordGraph, minNumNodes, path, seenPaths>>

Search ==
    \/ MainCreateWordGraph
    \/ FindSolutionsCall
    \/ ExploreWordGraph
    \/ ExploreReturn
    \/ FindSolutionsReturn

Next ==
    \/ MainCreateLetterBoxGraph
    \/ MainFindWords
    \/ MainFilterWords
    \/ Search

Spec == Init /\ [][Next]_vars

-----------------------------------------------------------------------------
(* What the claims speak of, stated without the program's algorithms.      *)

\* the letter occurrences <<side, position>> of a layout, counted from 0
Occurrences(s) ==
    UNION {{<<i, k>> : k \in 0..(Len(s[i + 1]) - 1)} : i \in 0..(Len(s) - 1)}

OccurrenceKey(s, o) == LetterKey(o[1], o[2], s[o[1] + 1][o[2] + 1])

Adjacent(g, v, w) == Contains(Neighbors(g, v), w)

\* the walks of 3 to n nodes of a letter graph
Walks(g, n) ==
    {p \in UNION {[1..k -> Range(g.nodes)] : k \in 3..n} :
        \A i \in 1..(Len(p) - 1) : Adjacent(g, p[i], p[i + 1])}

TextOf(g, p) == [i \in DOMAIN p |-> NodeLabel(g, p[i])]

\* the node sequences that realize a dictionary entry of 3 letters or more
Realizable(g, d) == {p \in Walks(g, MaxWordLen) : TextOf(g, p) \in d}

\* The least number of links of a covering chain.  A link is the
\* <<first, last, covered, node sequence>> of a word, follows is the set of
\* pairs <<l1, l2>> of links such that l2 may come right after l1, and a
\* chain is summed up by <<last link, covered>>.
LinkOf(nodeKeys) == <<nodeKeys[1], nodeKeys[Len(nodeKeys)], Range(nodeKeys), nodeKeys>>

NextLayer(layer, follows) ==
    {<<x[2][2], x[1][2] \cup x[2][2][3]>> :
        x \in {y \in layer \X follows : y[1][1] = y[2][1]}}

RECURSIVE MinCover(_, _, _, _, _)
MinCover(layer, visited, follows, all, k) ==
    IF \E s \in layer : s[2] = all THEN k
    ELSE LET new == NextLayer(layer, follows) \ visited
         IN  IF new = {} THEN 0
             ELSE MinCover(new, visited \cup new, follows, all, k + 1)

\* 0 when no chain covers all, else the least number of links of such a chain
MinCoverLen(links, follows, all) ==
    LET first == {<<l, l[3]>> : l \in links}
    IN  MinCover(first, first, follows, all, 1)

\* chains of realizable words: the next word starts where the last one ended
MinChainOfWords ==
    LET links == {LinkOf(p) : p \in Realizable(graph, dict)}
    IN  MinCoverLen(links, {x \in links \X links : x[1][2] = x[2][1]},
                    Range(graph.nodes))

\* paths of the word graph
MinPathInWordGraph ==
    LET links == {LinkOf(NodeLabel(wordGraph, wordGraph.nodes[i]).nodeKeys) :
                     i \in DOMAIN wordGraph.nodes}
    IN  MinCoverLen(links,
                    {x \in links \X links :
                        Contains(Successors(wordGraph, Join(x[1][4], <<"-", ">">>)),
                                 Join(x[2][4], <<"-", ">">>))},
                    Range(graph.nodes))

SolutionLens == {Len(solutions[i].letterBoxWordList) : i \in DOMAIN solutions}

ShortestSolution == CHOOSE n \in SolutionLens : \A m \in SolutionLens : n <= m

-----------------------------------------------------------------------------
(* filterWordsInLetterBox on its own: any list of distinct walks of a box, *)
(* in any order, is filtered, and the output is filtered again.            *)

\* a box of 1 + 2 letters
FilterLayouts == {<<<<"a">>, <<"b", "d">>>>}

\* a box of 1 + 3 letters
SearchLayouts == {<<<<"a">>, <<"e", "d", "b">>>>}

SeqsOfDistinct(S, n) ==
    {s \in SeqsUpTo(S, n) : \A i, j \in DOMAIN s : i # j => s[i] # s[j]}

\* the lists of at most MaxWords distinct words walked on the letter graph g
WordLists(g) ==
    LET ws == {[word |-> TextOf(g, p), nodeKeys |-> p] : p \in Walks(g, MaxWalkLen)}
    IN  SeqsOfDistinct(ws, MaxWords) \ {<<>>}

InitFilter ==
    /\ pc = "found"
    /\ sides \in FilterLayouts
    /\ graph = createLetterBoxGraph(sides)
    /\ words \in WordLists(graph)
    /\ dict = {words[i].word : i \in DOMAIN words}
    /\ filteredWords = <<>>
    /\ refilteredWords = <<>>
    /\ wordGraph = NewGraph(TRUE)
    /\ minNumNodes = 0
    /\ path = <<>>
    /\ stack = <<>>
    /\ seenPaths = {}
    /\ solutions = <<>>

\* the filter applied to its own output, kept in the same order
Refilter ==
    /\ pc = "filtered"
    /\ refilteredWords' = filterWordsInLetterBox(filteredWords)
    /\ pc' = "refiltered"
    /\ UNCHANGED <<sides, dict, graph, words, filteredWords, wordGraph, minNumNodes,
                   path, stack, seenPaths, solutions>>

NextFilter == MainFilterWords \/ Refilter

SpecFilter == InitFilter /\ [][NextFilter]_vars

-----------------------------------------------------------------------------
(* createWordGraph and findSolutions on their own: any list of distinct    *)
(* walks of a box, in any order, is the filtered word set.                 *)

InitSearch ==
    /\ pc = "filtered"
    /\ sides \in SearchLayouts
    /\ graph = createLetterBoxGraph(sides)
    /\ filteredWords \in WordLists(graph)
    /\ words = filteredWords
    /\ dict = {words[i].word : i \in DOMAIN words}
    /\ refilteredWords = <<>>
    /\ wordGraph = NewGraph(TRUE)
    /\ minNumNodes = 0
    /\ path = <<>>
    /\ stack = <<>>
    /\ seenPaths = {}
    /\ solutions = <<>>

SpecSearch == InitSearch /\ [][Search]_vars

-----------------------------------------------------------------------------
(* Claims                                                                  *)

\* C1: whenever some chain of realizable words covers every letter node of
\* the box, main ends with a non-empty list of solutions whose shortest has
\* the least number of words of all covering chains of realizable words.
C1_MinimalChainFound ==
    (pc = "done" /\ MinChainOfWords > 0) =>
        /\ solutions # <<>>
        /\ ShortestSolution = MinChainOfWords

\* C2: every solution is a path of the word graph whose words cover exactly
\* the N letter nodes of the box, N being its numSeenLetterNodes, and no
\* proper prefix of it covers N letter nodes.
C2_SolutionsCoverExactly ==
    \A i \in DOMAIN solutions :
        LET chain == solutions[i].letterBoxWordList
        IN  /\ chain # <<>>
            /\ \A k \in DOMAIN chain :
                  /\ HasNode(wordGraph, WordKey(chain[k]))
                  /\ NodeLabel(wordGraph, WordKey(chain[k])) = chain[k]
            /\ \A k \in 1..(Len(chain) - 1) :
                  Contains(Successors(wordGraph, WordKey(chain[k])), WordKey(chain[k + 1]))
            /\ SeenNodes(chain) = Range(graph.nodes)
            /\ solutions[i].numSeenLetterNodes = NodeCount(graph)
            /\ Cardinality(SeenNodes(chain)) = solutions[i].numSeenLetterNodes
            /\ \A k \in 0..(Len(chain) - 1) :
                  Cardinality(SeenNodes(SubSeq(chain, 1, k))) < NodeCount(graph)

\* the search is over and returned a solution of two words or more
C2_Witness ==
    /\ pc = "done"
    /\ \E i \in DOMAIN solutions : Len(solutions[i].letterBoxWordList) >= 2

\* C3: the output of the filter holds no word whose coverage is a strict
\* subset of the coverage of another word of the output, whatever the order
\* of the input.
C3_NoDominatedWordLeft ==
    pc = "filtered" =>
        \A i, j \in DOMAIN filteredWords :
            ~(/\ KeySet(filteredWords[i]) \subseteq KeySet(filteredWords[j])
              /\ KeySet(filteredWords[i]) # KeySet(filteredWords[j]))

\* C4: the filter applied to its own output returns that output.
C4_FilterIdempotent ==
    pc = "refiltered" => refilteredWords = filteredWords

\* the first pass dropped a word and kept two or more
C4_Witness ==
    /\ pc = "refiltered"
    /\ Len(filteredWords) < Len(words)
    /\ Len(filteredWords) >= 2

\* C5: the nodes of the word graph are exactly the filtered words, one per
\* node sequence, and there is an edge X -> Y iff X ends on the letter node Y
\* starts on and X and Y differ.
C5_WordGraphExact ==
    pc = "graphed" =>
        /\ NodeCount(wordGraph) = Cardinality(Range(filteredWords))
        /\ \A i \in DOMAIN filteredWords :
              /\ HasNode(wordGraph, WordKey(filteredWords[i]))
              /\ NodeLabel(wordGraph, WordKey(filteredWords[i])) = filteredWords[i]
        /\ \A i, j \in DOMAIN filteredWords :
              Contains(wordGraph.edges, <<WordKey(filteredWords[i]), WordKey(filteredWords[j])>>)
                  <=> /\ endCharKey(filteredWords[i]) = startCharKey(filteredWords[j])
                      /\ filteredWords[i].nodeKeys # filteredWords[j].nodeKeys

\* C6: findWords returns exactly one word per walk of the letter graph that
\* spells a dictionary entry of 3 letters or more, and nothing else; text and
\* node sequence of a word have the same length and the text is the letters
\* of the nodes.
C6_FindWordsExact ==
    pc = "found" =>
        /\ \A i \in DOMAIN words :
              /\ Len(words[i].word) = Len(words[i].nodeKeys)
              /\ Len(words[i].word) >= 3
              /\ \A k \in 1..(Len(words[i].nodeKeys) - 1) :
                    Adjacent(graph, words[i].nodeKeys[k], words[i].nodeKeys[k + 1])
              /\ words[i].word = TextOf(graph, words[i].nodeKeys)
              /\ words[i].word \in dict
        /\ \A p \in Realizable(graph, dict) :
              Cardinality({i \in DOMAIN words : words[i].nodeKeys = p}) = 1
        /\ Len(words) = Cardinality(Realizable(graph, dict))

\* the same text is realized by two walks, and an entry of the dictionary
\* is not realizable
C6_Witness ==
    /\ pc = "found"
    /\ \E i, j \in DOMAIN words :
          words[i].word = words[j].word /\ words[i].nodeKeys # words[j].nodeKeys
    /\ \E w \in dict : Len(w) >= 3 /\ \A i \in DOMAIN words : words[i].word # w

\* C7: for every layout, the letter graph has exactly one node per letter
\* occurrence, and two nodes are adjacent iff they lie on different sides.
C7_OneNodePerOccurrence ==
    pc = "boxed" =>
        /\ NodeCount(graph) = Cardinality(Occurrences(sides))
        /\ \A o \in Occurrences(sides) :
              /\ HasNode(graph, OccurrenceKey(sides, o))
              /\ NodeLabel(graph, OccurrenceKey(sides, o)) = sides[o[1] + 1][o[2] + 1]
        /\ \A o1, o2 \in Occurrences(sides) :
              Adjacent(graph, OccurrenceKey(sides, o1), OccurrenceKey(sides, o2))
                  <=> o1[1] # o2[1]

\* C8: if some path of the word graph covers all N letter nodes, findSolutions
\* returns a solution, and its shortest solution is no longer than the
\* shortest covering path.
C8_PruningLosesNothing ==
    (pc = "done" /\ MinPathInWordGraph > 0) =>
        /\ solutions # <<>>
        /\ ShortestSolution <= MinPathInWordGraph

\* C9: in every call of exploreWordGraph each word of the chain added a letter
\* node when it was appended, so the chain is never longer than the box has
\* letter nodes, and the 'too many paths' error is never thrown.
C9_ChainAddsNodes ==
    /\ pc # "thrown"
    /\ \A k \in DOMAIN path :
          ~(KeySet(NodeLabel(wordGraph, path[k]))
                \subseteq SeenNodes(PathWords(wordGraph, SubSeq(path, 1, k - 1))))
    /\ Len(path) <= NodeCount(graph)
    /\ Len(path) <= MaxChain

\* a chain of two words is about to be extended by a word that adds nothing
C9_Witness ==
    /\ pc = "search"
    /\ Len(path) >= 2
    /\ stack[Len(stack)] # <<>>
    /\ KeySet(NodeLabel(wordGraph, Head(stack[Len(stack)])))
          \subseteq SeenNodes(PathWords(wordGraph, path))

\* C10: for every input word the output holds a word whose coverage includes
\* its coverage; of the input words of one same coverage that no input word
\* strictly dominates, exactly one is in the output.
C10_CoverageKept ==
    pc = "filtered" =>
        /\ \A i \in DOMAIN words : \E k \in DOMAIN filteredWords :
              KeySet(words[i]) \subseteq KeySet(filteredWords[k])
        /\ \A i \in DOMAIN words :
              (\A j \in DOMAIN words :
                  KeySet(words[i]) \subseteq KeySet(words[j]) => KeySet(words[i]) = KeySet(words[j]))
              => Cardinality({k \in DOMAIN filteredWords :
                                 KeySet(filteredWords[k]) = KeySet(words[i])}) = 1

\* two input words of one same coverage that nothing dominates, and a third
\* word that is dominated
C10_Witness ==
    /\ pc = "filtered"
    /\ \E i, j \in DOMAIN words :
          /\ i # j
          /\ KeySet(words[i]) = KeySet(words[j])
          /\ \A k \in DOMAIN words : KeySet(words[i]) \subseteq KeySet(words[k])
                                        => KeySet(words[i]) = KeySet(words[k])
    /\ \E i, j \in DOMAIN words :
          KeySet(words[i]) \subseteq KeySet(words[j]) /\ KeySet(words[i]) # KeySet(words[j])

====
